---- MODULE Spec2Model ----
(***************************************************************************)
(* Model of src/src/main.rs: the A4 -> A6 PDF resize (resize_pdf_to_a6),   *)
(* the derivation of the "_a6" file name and the print request handler     *)
(* (print_file_handler).                                                   *)
(*                                                                         *)
(* Lengths are integers in hundredths of a PostScript point.  A quotient   *)
(* of two lengths is kept in fixed point with denominator ScaleDen.        *)
(* A content stream is a sequence of tokens (numbers and mnemonics, in the *)
(* postfix order of the PDF content grammar); a decoded content is a       *)
(* sequence of operations.                                                 *)
(***************************************************************************)
EXTENDS Integers, Sequences, FiniteSets, TLC

VARIABLES
    src,          \* source rectangle <<w, h>> the scale is computed from
    dst,          \* destination rectangle <<w, h>>
    input,        \* the file at input_path
    output,       \* the file at output_path
    doc,          \* the Document held by the running resize_pdf_to_a6
    scale_factor, \* the local scale_factor
    page_idx,     \* position of the for loop in doc.get_pages()
    pc,           \* position of resize_pdf_to_a6
    result,       \* what resize_pdf_to_a6 returned
    mutated,      \* history: the run has changed a page of doc
    orig,         \* history: the document the first run loaded
    runs,         \* history: number of runs started
    name,         \* req.filename of the file name derivation
    a6_name,      \* the derived a6_filename
    npc,          \* position of the file name derivation
    fs,           \* the directory ./printable_files: file name -> file
    req,          \* per request: the PrintRequest
    hpc,          \* per request: position of print_file_handler
    hdoc,         \* per request: the Document its resize_pdf_to_a6 holds
    file_data,    \* per request: the bytes read from the A6 file
    response,     \* per request: the response returned
    hist          \* per request, history: files read and written, steps passed

vars == <<src, dst, input, output, doc, scale_factor, page_idx, pc, result,
          mutated, orig, runs, name, a6_name, npc, fs, req, hpc, hdoc,
          file_data, response, hist>>

resizeVars == <<src, dst, input, output, doc, scale_factor, page_idx, pc,
                result, mutated, orig, runs>>
nameVars == <<name, a6_name, npc>>
handlerVars == <<fs, req, hpc, hdoc, file_data, response, hist>>

----------------------------------------------------------------------------
(* Paper sizes, hundredths of a point.                                     *)

A6_WIDTH_PTS == 29764
A6_HEIGHT_PTS == 41953
A4_WIDTH_PTS == 59528
A4_HEIGHT_PTS == 84189

\* Denominator of the fixed-point representation of an f32 quotient.
ScaleDen == 10000

\* Bounds of the model.
MaxPages == 2
MaxRuns == 2
MaxNameLen == 4

StreamIds == {1, 2}

----------------------------------------------------------------------------
(* Scale policy: lines 63-70.                                              *)

Min(a, b) == IF a <= b THEN a ELSE b

\* A6 / A4 written the wrong way round.
ScaleFactorInverted(s, d) ==
    Min((s[1] * ScaleDen) \div d[1], (s[2] * ScaleDen) \div d[2])

\* scale_x.min(scale_y), with scale_x = dst.w / src.w, scale_y = dst.h / src.h
ScaleFactor(s, d) ==
    Min((d[1] * ScaleDen) \div s[1], (d[2] * ScaleDen) \div s[2])

\* scale_factor > 1.0
Oversize(sf) == sf > ScaleDen

----------------------------------------------------------------------------
(* Content streams: tokens, operations, decode and encode.                 *)

Num(v) == [k |-> "num", v |-> v]
Opr(m) == [k |-> m, v |-> 0]
BadToken == [k |-> "bad", v |-> 0]

Operation(operator, operands) == [operator |-> operator, operands |-> operands]

\* Operation::new("cm", [s, 0, 0, s, 0, 0])
matrix_op(sf) == Operation("cm", <<sf, 0, 0, sf, 0, 0>>)

RECURSIVE DecodeFrom(_, _, _, _)
DecodeFrom(bytes, i, operands, acc) ==
    IF i > Len(bytes)
    THEN IF operands = <<>> THEN [ok |-> TRUE, operations |-> acc]
                            ELSE [ok |-> FALSE, operations |-> <<>>]
    ELSE IF bytes[i].k = "bad"
         THEN [ok |-> FALSE, operations |-> <<>>]
         ELSE IF bytes[i].k = "num"
              THEN DecodeFrom(bytes, i + 1, Append(operands, bytes[i].v), acc)
              ELSE DecodeFrom(bytes, i + 1, <<>>,
                              Append(acc, Operation(bytes[i].k, operands)))

\* Content::decode
Decode(bytes) == DecodeFrom(bytes, 1, <<>>, <<>>)

RECURSIVE NumTokens(_)
NumTokens(operands) ==
    IF operands = <<>> THEN <<>>
    ELSE <<Num(Head(operands))>> \o NumTokens(Tail(operands))

RECURSIVE Encode(_)
\* Content::encode: each operation as its operands followed by its mnemonic
Encode(operations) ==
    IF operations = <<>> THEN <<>>
    ELSE NumTokens(Head(operations).operands)
         \o <<Opr(Head(operations).operator)>>
         \o Encode(Tail(operations))

\* The operator left out when the content already starts with it.
InsertOpGuarded(operations, op) ==
    IF operations # <<>> /\ Head(operations) = op
    THEN operations
    ELSE <<op>> \o operations

\* content.operations.push(matrix_op): the operator at the end
InsertBack(operations, op) == operations \o <<op>>

\* content.operations.insert(0, matrix_op)
InsertOp(operations, op) == <<op>> \o operations

----------------------------------------------------------------------------
(* Documents.  A document is its page list (doc.get_pages(), in document   *)
(* order), its stream objects by object id, and max_id.  A page is its     *)
(* MediaBox and its Contents entry: absent, one reference, or an array of  *)
(* references.                                                             *)

Box(w, h) == <<0, 0, w, h>>

NoContents == [kind |-> "none", ids |-> <<>>]
RefContents(id) == [kind |-> "ref", ids |-> <<id>>]
ArrContents(ids) == [kind |-> "arr", ids |-> ids]

NoDoc == [pages |-> <<>>, streams |-> <<>>, max_id |-> 0, kind |-> "none"]
Corrupt == [pages |-> <<>>, streams |-> <<>>, max_id |-> 0, kind |-> "corrupt"]
Absent == [pages |-> <<>>, streams |-> <<>>, max_id |-> 0, kind |-> "absent"]

IsDoc(f) == f.kind = "doc"

\* Document::get_page_contents: the object ids the Contents entry refers to
get_page_contents(d, p) == d.pages[p].Contents.ids

RECURSIVE ConcatStreams(_, _)
ConcatStreams(d, ids) ==
    IF ids = <<>> THEN <<>>
    ELSE (IF Head(ids) \in DOMAIN d.streams THEN d.streams[Head(ids)] ELSE <<>>)
         \o ConcatStreams(d, Tail(ids))

\* Document::get_page_content: the bytes of the page's streams, concatenated
get_page_content(d, p) == ConcatStreams(d, get_page_contents(d, p))

\* Document::change_content_stream
change_content_stream(d, id, content) ==
    IF id \in DOMAIN d.streams
    THEN [d EXCEPT !.streams[id] = content]
    ELSE d

\* Document::change_page_content
change_page_content(d, p, content) ==
    LET c == d.pages[p].Contents IN
    IF c.kind = "none" THEN [ok |-> FALSE, doc |-> d]
    ELSE IF c.kind = "ref" \/ Len(c.ids) = 1
         THEN [ok |-> TRUE, doc |-> change_content_stream(d, c.ids[1], content)]
         ELSE LET new_id == d.max_id + 1 IN
              [ok |-> TRUE,
               doc |-> [d EXCEPT !.streams = (new_id :> content) @@ d.streams,
                                 !.max_id = new_id,
                                 !.pages[p].Contents = RefContents(new_id)]]

\* The page dictionary left as it was.
KeepMediaBox(d, p, box) == d

\* page.set("MediaBox", [0, 0, A6_WIDTH_PTS, A6_HEIGHT_PTS])
ModifyMediaBox(d, p, box) == [d EXCEPT !.pages[p].MediaBox = box]

\* One iteration of the for loop, lines 72-103.
ProcessPage(d, p, sf, box) ==
    LET d1 == ModifyMediaBox(d, p, box)
        content_data == get_page_content(d1, p)
        content == Decode(content_data)
    IN  IF ~content.ok THEN [ok |-> FALSE, doc |-> d1]
        ELSE change_page_content(
                 d1, p, Encode(InsertOp(content.operations, matrix_op(sf))))

----------------------------------------------------------------------------
(* The documents a run is started on.                                      *)

\* Sequences over S of length lo..hi
SeqsOf(S, lo, hi) == UNION {[1..n -> S] : n \in lo..hi}

GoodBytes(id) == <<Num(id), Num(id), Opr("m"), Opr("S")>>
BadBytes == <<BadToken>>

BoxChoices == {Box(A4_WIDTH_PTS, A4_HEIGHT_PTS), Box(A4_HEIGHT_PTS, A4_WIDTH_PTS)}

ContentsChoices ==
    {NoContents}
    \cup {RefContents(id) : id \in StreamIds}
    \cup {ArrContents(ids) : ids \in SeqsOf(StreamIds, 0, 2)}

PageChoices == [MediaBox : BoxChoices, Contents : ContentsChoices]

\* The stream objects some page of the page list refers to.
RefsOf(pages) ==
    UNION {{pages[p].Contents.ids[i] : i \in DOMAIN pages[p].Contents.ids}
           : p \in DOMAIN pages}

\* The document with the given page list; every stream a page refers to
\* exists, with content the decoder accepts ("good") or rejects ("bad").
MakeDoc(pages, q) ==
    [pages |-> pages,
     streams |-> [id \in RefsOf(pages) |->
                     IF q[id] = "good" THEN GoodBytes(id) ELSE BadBytes],
     max_id |-> Cardinality(StreamIds),
     kind |-> "doc"]

----------------------------------------------------------------------------
(* resize_pdf_to_a6, lines 59-109.                                         *)

A4Rect == <<A4_WIDTH_PTS, A4_HEIGHT_PTS>>
A6Rect == <<A6_WIDTH_PTS, A6_HEIGHT_PTS>>

StartRun(in) ==
    /\ input = in
    /\ output = Absent
    /\ doc = NoDoc
    /\ scale_factor = 0
    /\ page_idx = 0
    /\ pc = "load"
    /\ result = "none"
    /\ mutated = FALSE
    /\ orig = in
    /\ runs = 1

\* Document::load(input_path), lines 60-61
Load ==
    /\ pc = "load"
    /\ IF IsDoc(input)
       THEN /\ doc' = input
            /\ pc' = "scale"
            /\ result' = result
       ELSE /\ doc' = doc
            /\ pc' = "done"
            /\ result' = "LoadError"
    /\ UNCHANGED <<src, dst, input, output, scale_factor, page_idx, mutated,
                   orig, runs>>

\* lines 63-70
ScalePolicy ==
    /\ pc = "scale"
    /\ LET sf == ScaleFactor(src, dst) IN
       IF Oversize(sf)
       THEN /\ pc' = "done"
            /\ result' = "OversizeError"
            /\ UNCHANGED <<scale_factor, page_idx>>
       ELSE /\ scale_factor' = sf
            /\ page_idx' = 1
            /\ pc' = IF Len(doc.pages) = 0 THEN "save" ELSE "loop"
            /\ result' = result
    /\ UNCHANGED <<src, dst, input, output, doc, mutated, orig, runs>>

\* one iteration of for (_, page_id) in doc.get_pages(), lines 72-103
PageStep ==
    /\ pc = "loop"
    /\ page_idx <= Len(doc.pages)
    /\ LET r == ProcessPage(doc, page_idx, scale_factor, Box(dst[1], dst[2])) IN
       /\ doc' = r.doc
       /\ mutated' = TRUE
       /\ IF r.ok
          THEN /\ page_idx' = page_idx + 1
               /\ pc' = IF page_idx = Len(doc.pages) THEN "save" ELSE "loop"
               /\ result' = result
          ELSE /\ page_idx' = page_idx
               /\ pc' = "done"
               /\ result' = "StructuralError"
    /\ UNCHANGED <<src, dst, input, output, scale_factor, orig, runs>>

\* doc.save(output_path), lines 105-108: File::create, then the objects of
\* the document are written; either of the two can fail.
Save ==
    /\ pc = "save"
    /\ \E outcome \in {"ok", "create_failed", "write_failed"} :
          /\ output' = CASE outcome = "ok" -> doc
                         [] outcome = "create_failed" -> output
                         [] outcome = "write_failed" -> Corrupt
          /\ result' = IF outcome = "ok" THEN "Ok" ELSE "SaveError"
    /\ pc' = "done"
    /\ UNCHANGED <<src, dst, input, doc, scale_factor, page_idx, mutated,
                   orig, runs>>

\* The next request names the file the last run saved.
Rerun ==
    /\ pc = "done"
    /\ result = "Ok"
    /\ runs < MaxRuns
    /\ input' = output
    /\ output' = Absent
    /\ doc' = NoDoc
    /\ scale_factor' = 0
    /\ page_idx' = 0
    /\ pc' = "load"
    /\ result' = "none"
    /\ mutated' = FALSE
    /\ runs' = runs + 1
    /\ UNCHANGED <<src, dst, orig>>

IdleName == name = <<>> /\ a6_name = <<>> /\ npc = "idle"
IdleHandler ==
    /\ fs = <<>> /\ req = <<>> /\ hpc = <<>> /\ hdoc = <<>> /\ file_data = <<>>
    /\ response = <<>> /\ hist = <<>>

Init ==
    /\ src = A4Rect
    /\ dst = A6Rect
    /\ \/ StartRun(Corrupt)
       \/ \E n \in 1..MaxPages : \E pages \in [1..n -> PageChoices] :
             \E q \in [RefsOf(pages) -> {"good", "bad"}] :
                StartRun(MakeDoc(pages, q))
    /\ IdleName
    /\ IdleHandler

Next ==
    \/ Load /\ UNCHANGED <<nameVars, handlerVars>>
    \/ ScalePolicy /\ UNCHANGED <<nameVars, handlerVars>>
    \/ PageStep /\ UNCHANGED <<nameVars, handlerVars>>
    \/ Save /\ UNCHANGED <<nameVars, handlerVars>>
    \/ Rerun /\ UNCHANGED <<nameVars, handlerVars>>

Spec == Init /\ [][Next]_vars

(* The derived file name, lines 156-163.  A file name is a sequence of     *)
(* characters.                                                             *)

Chars == {"a", ".", "_"}

A6Suffix == <<"_", "a", "6">>

RECURSIVE find(_, _, _)
\* str::find: the first position of c at or after i, 0 for None
find(s, c, i) ==
    IF i > Len(s) THEN 0
    ELSE IF s[i] = c THEN i
    ELSE find(s, c, i + 1)

\* the first separator instead of the last one
FirstDot(str) == find(str, ".", 1)

RECURSIVE rfindFrom(_, _, _)
rfindFrom(s, c, i) ==
    IF i = 0 THEN 0
    ELSE IF s[i] = c THEN i
    ELSE rfindFrom(s, c, i - 1)

\* original_filename.rfind('.'): the last position of '.', 0 for None
rfind_dot(str) == rfindFrom(str, ".", Len(str))

\* the map_or_else of lines 157-163
a6_filename_of(original_filename) ==
    LET i == rfind_dot(original_filename) IN
    IF i = 0
    THEN original_filename \o A6Suffix
    ELSE SubSeq(original_filename, 1, i - 1) \o A6Suffix
         \o SubSeq(original_filename, i, Len(original_filename))

InvoicePdf == <<"i", "n", "v", "o", "i", "c", "e", ".", "p", "d", "f">>
Readme == <<"R", "E", "A", "D", "M", "E">>

NameChoices == SeqsOf(Chars, 0, MaxNameLen) \cup {InvoicePdf, Readme}

IdleResize ==
    /\ src = A4Rect /\ dst = A6Rect /\ input = Absent /\ output = Absent
    /\ doc = NoDoc /\ scale_factor = 0 /\ page_idx = 0 /\ pc = "idle"
    /\ result = "none" /\ mutated = FALSE /\ orig = Absent /\ runs = 0

InitName ==
    /\ name \in NameChoices
    /\ a6_name = <<>>
    /\ npc = "start"
    /\ IdleResize
    /\ IdleHandler

DeriveName ==
    /\ npc = "start"
    /\ a6_name' = a6_filename_of(name)
    /\ npc' = "done"
    /\ UNCHANGED <<name, resizeVars, handlerVars>>

NextName == DeriveName

SpecName == InitName /\ [][NextName]_vars

\* C9: the derived name is the name with "_a6" inserted immediately before
\* its last '.', or with "_a6" appended when it has no '.'; "invoice.pdf"
\* gives "invoice_a6.pdf" and "README" gives "README_a6".
C9_DerivedName ==
    npc = "done" =>
        /\ Len(a6_name) = Len(name) + 3
        /\ IF \E i \in DOMAIN name : name[i] = "."
           THEN \E i \in DOMAIN name :
                   /\ name[i] = "."
                   /\ \A j \in DOMAIN name : j > i => name[j] # "."
                   /\ \A j \in 1..(i - 1) : a6_name[j] = name[j]
                   /\ a6_name[i] = "_" /\ a6_name[i + 1] = "a" /\ a6_name[i + 2] = "6"
                   /\ \A j \in i..Len(name) : a6_name[j + 3] = name[j]
           ELSE /\ \A j \in DOMAIN name : a6_name[j] = name[j]
                /\ a6_name[Len(name) + 1] = "_"
                /\ a6_name[Len(name) + 2] = "a"
                /\ a6_name[Len(name) + 3] = "6"
        /\ name = InvoicePdf =>
              a6_name = <<"i", "n", "v", "o", "i", "c", "e", "_", "a", "6",
                          ".", "p", "d", "f">>
        /\ name = Readme =>
              a6_name = <<"R", "E", "A", "D", "M", "E", "_", "a", "6">>

C9_Witness ==
    /\ npc = "done"
    /\ Cardinality({i \in DOMAIN name : name[i] = "."}) >= 2
    /\ name[Len(name)] # "."

----------------------------------------------------------------------------
(* print_file_handler, lines 151-234, for concurrent requests.  A request  *)
(* proceeds by the steps that touch the directory or the print system.     *)

Requests == {"r1", "r2"}

BaseNames == {<<"a">>, <<"b", ".", "p">>}
RequestNames == BaseNames \cup {a6_filename_of(n) : n \in BaseNames}
Paths == RequestNames \cup {a6_filename_of(n) : n \in RequestNames}

InstalledPrinters == {"Office_LaserJet"}
PrinterNames == {"Office_LaserJet", "Nowhere"}

HandlerDoc ==
    [pages |-> <<[MediaBox |-> Box(A4_WIDTH_PTS, A4_HEIGHT_PTS),
                  Contents |-> RefContents(1)]>>,
     streams |-> <<GoodBytes(1)>>,
     max_id |-> 1,
     kind |-> "doc"]

RECURSIVE ResizePages(_, _, _, _)
\* the for loop of lines 72-103 from page p on
ResizePages(d, p, sf, box) ==
    IF p > Len(d.pages) THEN [ok |-> TRUE, doc |-> d]
    ELSE LET r == ProcessPage(d, p, sf, box) IN
         IF r.ok THEN ResizePages(r.doc, p + 1, sf, box) ELSE r

\* resize_pdf_to_a6 up to the save: lines 60-103
ResizeInMemory(file) ==
    IF ~IsDoc(file) THEN [ok |-> FALSE, doc |-> NoDoc]
    ELSE LET sf == ScaleFactor(A4Rect, A6Rect) IN
         IF Oversize(sf) THEN [ok |-> FALSE, doc |-> NoDoc]
         ELSE ResizePages(file, 1, sf, Box(A6_WIDTH_PTS, A6_HEIGHT_PTS))

a6_file_path(r) == a6_filename_of(req[r].filename)

Log(r, event) == [hist EXCEPT ![r].log = Append(@, event)]

Respond(r, status) ==
    /\ response' = [response EXCEPT ![r] = status]
    /\ hpc' = [hpc EXCEPT ![r] = "done"]

\* if !original_file_path.exists(), lines 167-172
CheckExists(r) ==
    /\ hpc[r] = "start"
    /\ IF fs[req[r].filename] = Absent
       THEN /\ Respond(r, "400 File not found")
            /\ hist' = [hist EXCEPT ![r].reads = @ \cup {req[r].filename}]
       ELSE /\ hpc' = [hpc EXCEPT ![r] = "resize"]
            /\ hist' = [hist EXCEPT ![r].reads = @ \cup {req[r].filename},
                                    ![r].log = Append(@, "exists")]
            /\ UNCHANGED response
    /\ UNCHANGED <<fs, req, hdoc, file_data>>

\* resize_pdf_to_a6 from Document::load to the end of the loop, line 175
ResizeLoad(r) ==
    /\ hpc[r] = "resize"
    /\ LET res == ResizeInMemory(fs[req[r].filename]) IN
       IF res.ok
       THEN /\ hdoc' = [hdoc EXCEPT ![r] = res.doc]
            /\ hpc' = [hpc EXCEPT ![r] = "save"]
            /\ UNCHANGED response
       ELSE /\ Respond(r, "500 Failed to resize PDF to A6")
            /\ UNCHANGED hdoc
    /\ hist' = [hist EXCEPT ![r].reads = @ \cup {req[r].filename}]
    /\ UNCHANGED <<fs, req, file_data>>

\* doc.save(output_path) within resize_pdf_to_a6, and the match of lines 175-184
ResizeSave(r) ==
    /\ hpc[r] = "save"
    /\ \E outcome \in {"ok", "create_failed", "write_failed"} :
          /\ fs' = [fs EXCEPT ![a6_file_path(r)] =
                        CASE outcome = "ok" -> hdoc[r]
                          [] outcome = "create_failed" -> @
                          [] outcome = "write_failed" -> Corrupt]
          /\ IF outcome = "ok"
             THEN /\ hpc' = [hpc EXCEPT ![r] = "read"]
                  /\ hist' = [hist EXCEPT ![r].writes = @ \cup {a6_file_path(r)},
                                          ![r].log = Append(@, "resize_ok")]
                  /\ UNCHANGED response
             ELSE /\ Respond(r, "500 Failed to resize PDF to A6")
                  /\ hist' = [hist EXCEPT ![r].writes =
                                 IF outcome = "write_failed"
                                 THEN @ \cup {a6_file_path(r)} ELSE @]
    /\ UNCHANGED <<req, hdoc, file_data>>

\* std::fs::read(&a6_file_path), lines 187-196
ReadA6(r) ==
    /\ hpc[r] = "read"
    /\ \E io_ok \in BOOLEAN :
          IF io_ok /\ fs[a6_file_path(r)] # Absent
          THEN /\ file_data' = [file_data EXCEPT ![r] = fs[a6_file_path(r)]]
               /\ hpc' = [hpc EXCEPT ![r] = "printer"]
               /\ hist' = [hist EXCEPT ![r].reads = @ \cup {a6_file_path(r)},
                                       ![r].log = Append(@, "read_ok")]
               /\ UNCHANGED response
          ELSE /\ Respond(r, "500 Failed to read A6 file")
               /\ hist' = [hist EXCEPT ![r].reads = @ \cup {a6_file_path(r)}]
               /\ UNCHANGED file_data
    /\ UNCHANGED <<fs, req, hdoc>>

\* The request goes on to print whether or not the printer was found.
ForgetReturn(found) == "print"

\* the match of lines 200-208: None returns the response
AfterLookup(found) == IF found THEN "print" ELSE "done"

\* printers::get_printer_by_name(&req.printer_name), lines 200-208
FindPrinter(r) ==
    /\ hpc[r] = "printer"
    /\ LET found == req[r].printer_name \in InstalledPrinters IN
       /\ hpc' = [hpc EXCEPT ![r] = AfterLookup(found)]
       /\ response' = [response EXCEPT ![r] =
                          IF found THEN @ ELSE "400 Printer not found"]
       /\ hist' = IF found THEN Log(r, "printer_found") ELSE hist
    /\ UNCHANGED <<fs, req, hdoc, file_data>>

\* printer.print(&file_data, options), lines 215-233
SubmitJob(r) ==
    /\ hpc[r] = "print"
    /\ \E print_ok \in BOOLEAN :
          /\ hist' = [hist EXCEPT ![r].log = Append(@, "print"),
                                  ![r].jobs = Append(@, file_data[r]),
                                  ![r].print_ok = print_ok]
          /\ Respond(r, IF print_ok THEN "200 success"
                                    ELSE "500 Failed to send print job")
    /\ UNCHANGED <<fs, req, hdoc, file_data>>

InitHandler ==
    /\ IdleResize
    /\ IdleName
    /\ \E present \in SUBSET RequestNames :
          fs = [path \in Paths |-> IF path \in present THEN HandlerDoc ELSE Absent]
    /\ req \in [Requests -> [filename : RequestNames, printer_name : PrinterNames]]
    /\ hpc = [r \in Requests |-> "start"]
    /\ hdoc = [r \in Requests |-> NoDoc]
    /\ file_data = [r \in Requests |-> Absent]
    /\ response = [r \in Requests |-> "none"]
    /\ hist = [r \in Requests |->
                  [reads |-> {}, writes |-> {}, log |-> <<>>, jobs |-> <<>>,
                   print_ok |-> FALSE]]

NextHandler ==
    \/ \E r \in Requests : CheckExists(r) /\ UNCHANGED <<resizeVars, nameVars>>
    \/ \E r \in Requests : ResizeLoad(r) /\ UNCHANGED <<resizeVars, nameVars>>
    \/ \E r \in Requests : ResizeSave(r) /\ UNCHANGED <<resizeVars, nameVars>>
    \/ \E r \in Requests : ReadA6(r) /\ UNCHANGED <<resizeVars, nameVars>>
    \/ \E r \in Requests : FindPrinter(r) /\ UNCHANGED <<resizeVars, nameVars>>
    \/ \E r \in Requests : SubmitJob(r) /\ UNCHANGED <<resizeVars, nameVars>>

SpecHandler == InitHandler /\ [][NextHandler]_vars

\* C7: two requests with different source file names touch no common file
\* that one of them writes.
C7_DifferentSourcesShareNoFile ==
    \A r1 \in Requests : \A r2 \in Requests \ {r1} :
        req[r1].filename # req[r2].filename =>
            (hist[r1].reads \cup hist[r1].writes) \cap hist[r2].writes = {}

ErrorsBeforePrint ==
    {"400 File not found", "500 Failed to resize PDF to A6",
     "500 Failed to read A6 file", "400 Printer not found"}

\* C10: a request submits at most one print job, and only after the file
\* was found, the resize returned Ok, the A6 file was read and the printer
\* was found, in this order; the four early error responses are returned
\* with no job submitted, and the success response only after the print
\* call returned Ok.
C10_PrintOnceAfterAllChecks ==
    \A r \in Requests :
        /\ Len(hist[r].jobs) <= 1
        /\ Len(hist[r].jobs) = 1 =>
              /\ hist[r].log = <<"exists", "resize_ok", "read_ok",
                                 "printer_found", "print">>
              /\ hist[r].jobs[1] = file_data[r]
        /\ (hpc[r] = "done" /\ response[r] \in ErrorsBeforePrint) =>
              hist[r].jobs = <<>>
        /\ response[r] = "200 success" =>
              (Len(hist[r].jobs) = 1 /\ hist[r].print_ok)
        /\ (hpc[r] = "done") = (response[r] # "none")

C10_Witness ==
    /\ \E r \in Requests : response[r] = "200 success"
    /\ \E r \in Requests : response[r] = "400 Printer not found"

----------------------------------------------------------------------------
(* The same run with the two rectangles as configuration values.           *)

RectChoices ==
    {<<w, h>> : w \in {A6_WIDTH_PTS, A4_WIDTH_PTS},
                h \in {A6_HEIGHT_PTS, A4_HEIGHT_PTS}}

InitScale ==
    /\ src \in RectChoices
    /\ dst \in RectChoices
    /\ \/ StartRun(Corrupt)
       \/ \E pages \in [1..1 -> PageChoices] :
             \E q \in [RefsOf(pages) -> {"good", "bad"}] :
                StartRun(MakeDoc(pages, q))
    /\ IdleName
    /\ IdleHandler

SpecScale == InitScale /\ [][Next]_vars

----------------------------------------------------------------------------
(* Properties of resize_pdf_to_a6.                                         *)

Succeeded == pc = "done" /\ result = "Ok"
Failed == pc = "done" /\ result \notin {"none", "Ok"}

IdsOf(d, p) == {d.pages[p].Contents.ids[i] : i \in DOMAIN d.pages[p].Contents.ids}

\* The pages of d whose Contents entry refers to stream id.
PagesReferring(d, id) == {p \in DOMAIN d.pages : id \in IdsOf(d, p)}

\* No stream of page p is referred to by another page.
Unshared(d, p) ==
    \A q \in DOMAIN d.pages : q # p => IdsOf(d, p) \cap IdsOf(d, q) = {}

PageOperations(d, p) == Decode(get_page_content(d, p)).operations

TheScale == ScaleFactor(A4Rect, A6Rect)

RECURSIVE Copies(_, _)
Copies(n, op) == IF n = 0 THEN <<>> ELSE <<op>> \o Copies(n - 1, op)

RECURSIVE LeadingCm(_)
\* The number of scale operators the operations start with.
LeadingCm(operations) ==
    IF operations # <<>> /\ Head(operations) = matrix_op(TheScale)
    THEN 1 + LeadingCm(Tail(operations))
    ELSE 0

\* C1: after a successful run, a content stream that two or more pages
\* reference holds exactly one prepended scale operator, followed by what it
\* held before.
C1_SharedStreamScaledOnce ==
    Succeeded =>
        \A id \in DOMAIN input.streams :
            Cardinality(PagesReferring(input, id)) >= 2 =>
                /\ id \in DOMAIN output.streams
                /\ Decode(output.streams[id]).operations
                     = <<matrix_op(TheScale)>> \o Decode(input.streams[id]).operations

\* C2: after a successful run, the decoded content of every page whose
\* streams no other page references is the scale operator (scale, 0, 0,
\* scale, 0, 0) followed by the page's original operators in their order.
C2_ScaleOperatorFirst ==
    Succeeded =>
        \A p \in DOMAIN input.pages :
            Unshared(input, p) =>
                PageOperations(output, p)
                    = <<Operation("cm", <<TheScale, 0, 0, TheScale, 0, 0>>)>>
                      \o PageOperations(input, p)

C2_Witness ==
    /\ Succeeded
    /\ \E p \in DOMAIN input.pages :
          /\ Unshared(input, p)
          /\ input.pages[p].Contents.kind = "arr"
          /\ Len(input.pages[p].Contents.ids) = 2
          /\ input.pages[p].Contents.ids[1] > input.pages[p].Contents.ids[2]

\* C3: after a successful run every page of the output has the MediaBox
\* (0, 0, A6_WIDTH_PTS, A6_HEIGHT_PTS), and the output has the input's pages.
C3_MediaBoxIsA6 ==
    Succeeded =>
        /\ Len(output.pages) = Len(input.pages)
        /\ \A p \in DOMAIN output.pages :
              output.pages[p].MediaBox = <<0, 0, A6_WIDTH_PTS, A6_HEIGHT_PTS>>

C3_Witness ==
    /\ Succeeded
    /\ Len(input.pages) = MaxPages
    /\ \A p \in DOMAIN input.pages :
          input.pages[p].MediaBox # <<0, 0, A6_WIDTH_PTS, A6_HEIGHT_PTS>>

\* C4: a run that fails at any step (load, scale check, decode, encode,
\* write-back, save) leaves no file at the output path.
C4_FailureLeavesNoOutput ==
    Failed => output = Absent

C6_OutputObjectsReachable ==
    Succeeded => DOMAIN output.streams \subseteq RefsOf(output.pages)

\* C8: the n-th successive run on its own output succeeds and leaves every
\* page whose streams no other page references with n scale operators in
\* front of its original operators, and with the A6 MediaBox.
C8_RerunCompoundsScale ==
    Succeeded =>
        \A p \in DOMAIN orig.pages :
            Unshared(orig, p) =>
                /\ PageOperations(output, p)
                     = Copies(runs, matrix_op(TheScale)) \o PageOperations(orig, p)
                /\ LeadingCm(PageOperations(output, p)) = runs
                /\ output.pages[p].MediaBox = <<0, 0, A6_WIDTH_PTS, A6_HEIGHT_PTS>>

C8_Witness ==
    /\ Succeeded
    /\ runs >= 2
    /\ \E p \in DOMAIN orig.pages : Unshared(orig, p)

====
